---------------------------- MODULE Spec2Model ----------------------------
(***************************************************************************)
(* Model of citiengov_export_gml.py: the CitiEnGov source document and its *)
(* iterator, the Building record with its find() query, and the two        *)
(* builders (Inspire, CityGML) with their translate() and write_to_file(). *)
(*                                                                         *)
(* Representation.                                                         *)
(*  - A text (Python str) is a sequence of tokens.  A token is a single    *)
(*    character (a digit, a delimiter, a blank) or a whole word of         *)
(*    letters; the string is the concatenation of its tokens.  The empty   *)
(*    sequence also stands for an element text that was never set.         *)
(*  - A source element is [text, attrib]; a feature member (gml:feature-   *)
(*    Member) is a function from the names of the children of its          *)
(*    GML_BUILDINGS_CEG element to those elements (the source schema is a  *)
(*    flat feature: at most one child per name).                           *)
(*  - An output element is [tag, attrib, text, ch]; tag and attribute keys *)
(*    are qualified names <<uri, local>>, attrib is a set of <<key, text>>.*)
(***************************************************************************)
EXTENDS Integers, Sequences, FiniteSets, TLC

VARIABLES
    feature_members,   \* CitiEnGov.feature_members: the parsed source document
    standard,          \* args.standard: "INSPIRE" or "CityGML"
    now,               \* datetime.utcnow() as read by Inspire.__init__
    pc,                \* position of the run
    building_UUIDs,    \* CitiEnGov.building_UUIDs
    UUID_index,        \* CitiEnGov.UUID_index
    UUID,              \* CitiEnGov.UUID
    building,          \* CitiEnGov.building
    root,              \* the builder's root element
    returned,          \* outcomes of the __next__ calls made so far, in order
    err,               \* the exception that ended the run, or NoErr
    written            \* the output files written so far, one tree per run

vars == <<feature_members, standard, now, pc, building_UUIDs, UUID_index, UUID,
          building, root, returned, err, written>>

---------------------------------------------------------------------------
(* Bounds of the model *)

\* longest source document (number of feature members) of Spec and SpecIter
MaxMembers == 3
\* cap on the cursor for next() calls made after exhaustion (SpecIter)
MaxIndex == 5
\* most feature members of the building of SpecEnergy
MaxEnergyMembers == 3
\* most feature members of the building of SpecHeight
MaxHeightMembers == 2
\* most entries of a USE_M string of SpecUse
MaxUses == 2
\* greatest number of floors of the building of SpecStoreys
MaxFloors == 3
\* longest source document of SpecTwice
MaxTwiceMembers == 2
\* longest source document of SpecApi
MaxApiMembers == 2
\* most translate() calls made on the builder of SpecApi
MaxTranslateCalls == 2

---------------------------------------------------------------------------
(* Texts *)

NoText == <<>>
NoErr == "none"

Digits == {"0", "1", "2", "3", "4", "5", "6", "7", "8", "9"}

DigitVal(c) ==
    CASE c = "0" -> 0 [] c = "1" -> 1 [] c = "2" -> 2 [] c = "3" -> 3
      [] c = "4" -> 4 [] c = "5" -> 5 [] c = "6" -> 6 [] c = "7" -> 7
      [] c = "8" -> 8 [] c = "9" -> 9

DigitChar(d) ==
    CASE d = 0 -> "0" [] d = 1 -> "1" [] d = 2 -> "2" [] d = 3 -> "3"
      [] d = 4 -> "4" [] d = 5 -> "5" [] d = 6 -> "6" [] d = 7 -> "7"
      [] d = 8 -> "8" [] d = 9 -> "9"

\* code point order of the characters that occur in the texts being sorted
CharOrd(c) ==
    CASE c = " " -> 32 [] c = "%" -> 37 [] c = "(" -> 40 [] c = ")" -> 41
      [] c = "," -> 44 [] c \in Digits -> 48 + DigitVal(c)
      [] OTHER -> 97

\* str < str: lexicographic by code point, a proper prefix is smaller
RECURSIVE StrLess(_, _)
StrLess(s, t) ==
    IF t = <<>> THEN FALSE
    ELSE IF s = <<>> THEN TRUE
    ELSE IF CharOrd(Head(s)) # CharOrd(Head(t))
         THEN CharOrd(Head(s)) < CharOrd(Head(t))
    ELSE StrLess(Tail(s), Tail(t))

\* int(str) is defined on a non-empty run of digits (ValueError otherwise)
IsNumeric(s) == Len(s) > 0 /\ \A i \in 1..Len(s) : s[i] \in Digits

RECURSIVE ToInt(_)
ToInt(s) ==
    IF s = <<>> THEN 0
    ELSE 10 * ToInt(SubSeq(s, 1, Len(s) - 1)) + DigitVal(s[Len(s)])

\* str(n) for n >= 0
RECURSIVE Str(_)
Str(n) ==
    IF n < 10 THEN <<DigitChar(n)>>
    ELSE Str(n \div 10) \o <<DigitChar(n % 10)>>

\* str.lower(), token by token
LowerTok(c) ==
    CASE c = "Functional" -> "functional"
      [] c = "GeneralRoof" -> "generalroof"
      [] c = "generalRoof" -> "generalroof"
      [] c = "highestPoint" -> "highestpoint"
      [] c = "Stimata" -> "stimata"
      [] c = "Residenziale" -> "residenziale"
      [] c = "Electricity" -> "electricity"
      [] c = "ELECTRICITY" -> "electricity"
      [] c = "Thermal" -> "thermal"
      [] c = "THERMAL" -> "thermal"
      [] c = "kWh" -> "kwh"
      [] c = "ApartmentBlock" -> "apartmentblock"
      [] OTHER -> c

Lower(s) == [i \in 1..Len(s) |-> LowerTok(s[i])]

\* sorted(list of str): ascending, stable
RECURSIVE Insert(_, _)
Insert(sorted, s) ==
    IF sorted = <<>> THEN <<s>>
    ELSE IF StrLess(s, Head(sorted)) THEN <<s>> \o sorted
    ELSE <<Head(sorted)>> \o Insert(Tail(sorted), s)

RECURSIVE Sorted(_)
Sorted(list) ==
    IF list = <<>> THEN <<>>
    ELSE Insert(Sorted(SubSeq(list, 1, Len(list) - 1)), list[Len(list)])

\* str.split(sep) for a one-character separator
RECURSIVE Split(_, _)
Split(s, sep) ==
    IF \A i \in 1..Len(s) : s[i] # sep THEN <<s>>
    ELSE LET k == CHOOSE i \in 1..Len(s) :
                      s[i] = sep /\ \A j \in 1..(i - 1) : s[j] # sep
         IN  <<SubSeq(s, 1, k - 1)>> \o Split(SubSeq(s, k + 1, Len(s)), sep)

\* str.partition(sep): <<before, sep, after>>, or <<s, '', ''>> without sep
Partition(s, sep) ==
    IF \A i \in 1..Len(s) : s[i] # sep THEN <<s, <<>>, <<>>>>
    ELSE LET k == CHOOSE i \in 1..Len(s) :
                      s[i] = sep /\ \A j \in 1..(i - 1) : s[j] # sep
         IN  <<SubSeq(s, 1, k - 1), <<sep>>, SubSeq(s, k + 1, Len(s))>>

\* str.strip(chars): drop leading and trailing characters that are in chars
RECURSIVE Strip(_, _)
Strip(s, chars) ==
    IF s = <<>> THEN s
    ELSE IF Head(s) \in chars THEN Strip(Tail(s), chars)
    ELSE IF s[Len(s)] \in chars THEN Strip(SubSeq(s, 1, Len(s) - 1), chars)
    ELSE s

Whitespace == {" "}

RECURSIVE Concat(_)
Concat(texts) ==
    IF texts = <<>> THEN <<>> ELSE Head(texts) \o Concat(Tail(texts))

---------------------------------------------------------------------------
(* Source side: elements, feature members, Building, CitiEnGov *)

None == [none |-> TRUE]

SrcEl(text) == [text |-> text, attrib |-> {}]

\* Element.find(path) on a feature member: the child element, or None
ElementFind(feature, attribute) ==
    IF attribute \in DOMAIN feature THEN feature[attribute] ELSE None

\* Building(uuid, feature_list, namespaces)
Building(uuid, feature_list) == [UUID |-> uuid, feature_list |-> feature_list]

NoBuilding == Building(NoText, <<>>)

\* Building.find(attribute): the first not-None element, or None
RECURSIVE FindFrom(_, _, _)
FindFrom(feature_list, attribute, i) ==
    IF i > Len(feature_list) THEN None
    ELSE IF ElementFind(feature_list[i], attribute) # None
         THEN ElementFind(feature_list[i], attribute)
    ELSE FindFrom(feature_list, attribute, i + 1)

\* mutant: the last feature member that has the attribute wins
RECURSIVE FindLastFrom(_, _, _)
FindLastFrom(feature_list, attribute, i) ==
    IF i < 1 THEN None
    ELSE IF ElementFind(feature_list[i], attribute) # None
         THEN ElementFind(feature_list[i], attribute)
    ELSE FindLastFrom(feature_list, attribute, i - 1)

find_last(bu, attribute) == FindLastFrom(bu.feature_list, attribute, Len(bu.feature_list))

find(bu, attribute) == FindFrom(bu.feature_list, attribute, 1)

\* Building.find(attribute, _all=True): the list comprehension
RECURSIVE FindAllFrom(_, _, _)
FindAllFrom(feature_list, attribute, i) ==
    IF i > Len(feature_list) THEN <<>>
    ELSE (IF ElementFind(feature_list[i], attribute) # None
          THEN <<ElementFind(feature_list[i], attribute)>>
          ELSE <<>>)
         \o FindAllFrom(feature_list, attribute, i + 1)

\* mutant: one entry per feature member, None where the attribute is missing
find_all_with_placeholders(bu, attribute) ==
    [i \in 1..Len(bu.feature_list) |-> ElementFind(bu.feature_list[i], attribute)]

find_all(bu, attribute) == FindAllFrom(bu.feature_list, attribute, 1)

Texts(elements) == [i \in 1..Len(elements) |-> elements[i].text]

\* mutant: a feature member without UUID gives an empty identifier
ListOfUuidsWithPlaceholders(members) ==
    [i \in 1..Len(members) |->
        IF ElementFind(members[i], "UUID") # None
        THEN ElementFind(members[i], "UUID").text
        ELSE NoText]

\* the uuid_path iteration of CitiEnGov.__init__: the UUID texts, in order
RECURSIVE ListOfUuids(_)
ListOfUuids(members) ==
    IF members = <<>> THEN <<>>
    ELSE (IF ElementFind(Head(members), "UUID") # None
          THEN <<ElementFind(Head(members), "UUID").text>>
          ELSE <<>>)
         \o ListOfUuids(Tail(members))

Range(s) == {s[i] : i \in 1..Len(s)}

\* mutant: the identifier list is not deduplicated
OrderingsKeepDuplicates(list) == {list}

\* list(set(list_of_uuids)): the distinct texts, in an order the set chooses
Orderings(list) ==
    {o \in [1..Cardinality(Range(list)) -> Range(list)] : Range(o) = Range(list)}

\* get_building raises AttributeError when a feature member has no UUID
GetBuildingRaises(members) ==
    \E i \in 1..Len(members) : ElementFind(members[i], "UUID") = None

\* mutant: only the first feature member of the building is kept
RECURSIVE FeatureListFirstMatch(_, _)
FeatureListFirstMatch(members, uuid) ==
    IF members = <<>> THEN <<>>
    ELSE IF ElementFind(Head(members), "UUID").text = uuid THEN <<Head(members)>>
    ELSE FeatureListFirstMatch(Tail(members), uuid)

RECURSIVE FeatureList(_, _)
FeatureList(members, uuid) ==
    IF members = <<>> THEN <<>>
    ELSE (IF ElementFind(Head(members), "UUID").text = uuid
          THEN <<Head(members)>> ELSE <<>>)
         \o FeatureList(Tail(members), uuid)

get_building(members, uuid) == Building(uuid, FeatureList(members, uuid))

\* mutant: the cursor starts after the building the constructor loaded
FirstIndexAfterLoaded == 0 + 1

\* the cursor CitiEnGov.__init__ starts from
FirstIndex == 0

\* mutant: next() leaves the cursor where it is when the sequence is exhausted
next_resting_at_end(members, uuids, idx, cur_uuid, cur_building) ==
    IF idx >= Len(uuids)
    THEN [stop |-> TRUE, raised |-> NoErr, bu |-> NoBuilding,
          UUID |-> cur_uuid, building |-> cur_building, UUID_index |-> idx]
    ELSE IF GetBuildingRaises(members)
    THEN [stop |-> FALSE, raised |-> "AttributeError", bu |-> NoBuilding,
          UUID |-> uuids[idx + 1], building |-> cur_building,
          UUID_index |-> idx + 1]
    ELSE [stop |-> FALSE, raised |-> NoErr,
          bu |-> get_building(members, uuids[idx + 1]),
          UUID |-> uuids[idx + 1],
          building |-> get_building(members, uuids[idx + 1]),
          UUID_index |-> idx + 1]

\* CitiEnGov.__next__ at cursor idx: the outcome and the object's fields after it
next_(members, uuids, idx, cur_uuid, cur_building) ==
    IF idx >= Len(uuids)
    THEN [stop |-> TRUE, raised |-> NoErr, bu |-> NoBuilding,
          UUID |-> cur_uuid, building |-> cur_building, UUID_index |-> idx + 1]
    ELSE IF GetBuildingRaises(members)
    THEN [stop |-> FALSE, raised |-> "AttributeError", bu |-> NoBuilding,
          UUID |-> uuids[idx + 1], building |-> cur_building,
          UUID_index |-> idx + 1]
    ELSE [stop |-> FALSE, raised |-> NoErr,
          bu |-> get_building(members, uuids[idx + 1]),
          UUID |-> uuids[idx + 1],
          building |-> get_building(members, uuids[idx + 1]),
          UUID_index |-> idx + 1]

---------------------------------------------------------------------------
(* Output side: elements, NameSpaceSolver, code lists *)

El(tag, attrib, text, ch) == [tag |-> tag, attrib |-> attrib, text |-> text, ch |-> ch]

\* eT.SubElement(parent, tag): a new element without attributes, text, children
Sub(tag) == El(tag, {}, NoText, <<>>)

\* an attribute key that is not namespace-qualified ('uom', 'unit', ...)
Plain(name) == <<"", name>>

\* result of a stretch of translate(): the children appended to the parent so
\* far, and the exception raised (NoErr: ran to its end)
R(ch, e) == [ch |-> ch, err |-> e]

\* statements run one after the other: the first exception ends the run
RECURSIVE Chain(_)
Chain(results) ==
    IF results = <<>> THEN R(<<>>, NoErr)
    ELSE IF Head(results).err # NoErr THEN Head(results)
    ELSE LET rest == Chain(Tail(results))
         IN  R(Head(results).ch \o rest.ch, rest.err)

\* a parent element around the children a stretch produced
Wrap(tag, attrib, text, r) == R(<<El(tag, attrib, text, r.ch)>>, r.err)

inspire_ns ==
    [p \in {"xmlns", "wfs", "xsi", "xlink", "gml", "gmd", "base", "bu-base", "bu-core2d"} |->
        CASE p = "xmlns" -> "http://www.opengis.net/wfs"
          [] p = "wfs" -> "http://www.opengis.net/wfs/2.0"
          [] p = "xsi" -> "http://www.w3.org/2001/XMLSchema-instance"
          [] p = "xlink" -> "http://www.w3.org/1999/xlink"
          [] p = "gml" -> "http://www.opengis.net/gml/3.2"
          [] p = "gmd" -> "http://www.isotc211.org/2005/gmd"
          [] p = "base" -> "http://inspire.ec.europa.eu/schemas/base/3.3"
          [] p = "bu-base" -> "http://inspire.ec.europa.eu/schemas/bu-base/4.0"
          [] p = "bu-core2d" -> "http://inspire.ec.europa.eu/schemas/bu-core2d/4.0"]

city_gml_ns ==
    [p \in {"wfs", "xsi", "xlink", "gml", "core", "energy", "bldg"} |->
        CASE p = "wfs" -> "http://www.opengis.net/wfs"
          [] p = "xsi" -> "http://www.w3.org/2001/XMLSchema-instance"
          [] p = "xlink" -> "http://www.w3.org/1999/xlink"
          [] p = "gml" -> "http://www.opengis.net/gml"
          [] p = "core" -> "http://www.opengis.net/citygml/2.0"
          [] p = "energy" -> "http://www.sig3d.org/citygml/2.0/energy/1.0"
          [] p = "bldg" -> "http://www.opengis.net/citygml/building/2.0"]

\* NameSpaceSolver.solve on 'prefix:tag', given as its two parts: {uri}tag
solve(dict, prefix, tag) == <<dict[prefix], tag>>

I(prefix, tag) == solve(inspire_ns, prefix, tag)
G(prefix, tag) == solve(city_gml_ns, prefix, tag)

\* a code list: keys are one-word terms, values one-token texts
Uri(u) == <<u>>

condition_of_construction_dict ==
    [k \in {<<"functional">>} |->
        Uri("http://inspire.ec.europa.eu/codelist/ConditionOfConstructionValue/functional")]

elevation_reference_dict ==
    [k \in {<<"generalroof">>} |->
        Uri("http://inspire.ec.europa.eu/codelist/ElevationReferenceValue/generalRoof")]

height_status_dict ==
    [k \in {<<"stimata">>} |->
        Uri("http://inspire.ec.europa.eu/codelist/HeightStatusValue/estimated")]

building_nature_dict == [k \in {} |-> Uri("")]

current_use_dict ==
    [k \in {<<"ausiliario">>, <<"negozio">>, <<"residenziale">>, <<"magazzino">>,
            <<"laboratorio">>} |->
        CASE k = <<"ausiliario">> ->
                 Uri("http://inspire.ec.europa.eu/codelist/CurrentUseValue/ancillary")
          [] k = <<"negozio">> ->
                 Uri("http://inspire.ec.europa.eu/codelist/CurrentUseValue/trade")
          [] k = <<"residenziale">> ->
                 Uri("http://inspire.ec.europa.eu/codelist/CurrentUseValue/residential")
          [] k = <<"magazzino">> ->
                 Uri("http://inspire.ec.europa.eu/codelist/CurrentUseValue/trade")
          [] k = <<"laboratorio">> ->
                 Uri("http://inspire.ec.europa.eu/codelist/CurrentUseValue/industrial")]

usage_dict ==
    [k \in {<<"school">>, <<"residential">>, <<"residenziale">>, <<"commercio">>,
            <<"ausiliario">>} |->
        CASE k = <<"school">> -> <<"2", "0", "7", "0">>
          [] k = <<"residential">> -> <<"1", "0", "0", "0">>
          [] k = <<"residenziale">> -> <<"1", "0", "0", "0">>
          [] k = <<"commercio">> -> <<"1", "1", "5", "0">>
          [] k = <<"ausiliario">> -> <<"2", "7", "0", "0">>]

roof_type_dict == [k \in {} |-> Uri("")]

height_reference_dict ==
    [k \in {<<"bottomOfConstruction">>, <<"entrancePoint">>, <<"generalEave">>,
            <<"generalroof">>, <<"generalRoofEdge">>, <<"highestEave">>,
            <<"highestPoint">>, <<"highestRoofEdge">>, <<"lowestEave">>,
            <<"lowestFloorAboveGround">>, <<"lowestRoofEdge">>,
            <<"topOfConstruction">>, <<"topThermalBoundary">>,
            <<"bottomThermalBoundary">>} |->
        CASE k = <<"generalroof">> -> <<"generalRoof">>
          [] k = <<"bottomThermalBoundary">> -> <<"topThermalBoundary">>
          [] OTHER -> k]

building_type_dict ==
    [k \in {<<"ApartmentBlock">>, <<"MultiFamilyHouse">>, <<"RowHouse">>,
            <<"SingleFamilyHouse">>} |-> k]

\* the 'YYYY-01-01T00:00:00' and 'YYYY-01-01' formats
Timestamp(y) == y \o <<"-01-01T00:00:00">>
Date(y) == y \o <<"-01-01">>

---------------------------------------------------------------------------
(* Inspire.translate: the statements of the loop body, section by section.   *)
(* Exceptions are named after the error they stand for: a code-list miss     *)
(* (KeyError of a *_dict) is "CodeListLookupFailure", None.text is           *)
(* "AttributeError".                                                         *)

COORDINATES == "GEOMETRY2D/gml:Polygon/gml:outerBoundaryIs/gml:LinearRing/gml:coordinates"

\* tag = SubElement(...); tag.text = bu.find(attribute).text
SetText(tag, bu, attribute) ==
    IF find(bu, attribute) = None
    THEN R(<<Sub(tag)>>, "AttributeError")
    ELSE R(<<El(tag, {}, find(bu, attribute).text, <<>>)>>, NoErr)

\* if bu.find(attribute) is not None: tag = SubElement(...); tag.text = its text
CopyIfPresent(tag, bu, attribute) ==
    IF find(bu, attribute) = None THEN R(<<>>, NoErr)
    ELSE R(<<El(tag, {}, find(bu, attribute).text, <<>>)>>, NoErr)

\* mutant: a term the table lacks is passed over (dict.get) instead of raising
LookupOrSkip(tag, key, dict, term) ==
    IF term \in DOMAIN dict
    THEN R(<<El(tag, {<<key, dict[term]>>}, NoText, <<>>)>>, NoErr)
    ELSE R(<<Sub(tag)>>, NoErr)

\* an element created first, then given the attribute key -> dict[term]
Lookup(tag, key, dict, term) ==
    IF term \in DOMAIN dict
    THEN R(<<El(tag, {<<key, dict[term]>>}, NoText, <<>>)>>, NoErr)
    ELSE R(<<Sub(tag)>>, "CodeListLookupFailure")

I_lifespan(bu) ==
    IF find(bu, "LIFESPAN_BEGINNING") = None
    THEN R(<<Sub(I("bu-base", "beginLifespanVersion"))>>, "AttributeError")
    ELSE R(<<El(I("bu-base", "beginLifespanVersion"), {},
                Timestamp(find(bu, "LIFESPAN_BEGINNING").text), <<>>)>>, NoErr)

I_condition(bu) ==
    IF find(bu, "CONDITION") = None
    THEN R(<<Sub(I("bu-base", "conditionOfConstruction"))>>, NoErr)
    ELSE Lookup(I("bu-base", "conditionOfConstruction"), I("xlink", "href"),
                condition_of_construction_dict, Lower(find(bu, "CONDITION").text))

\* DATE_OF_CONSTRUCTION and DATE_OF_RENOVATION: the end year is read from the
\* beginning field once more, and both use the tag bu-base:dateOfConstruction
I_date(bu, beginning, end) ==
    IF find(bu, beginning) = None THEN R(<<>>, NoErr)
    ELSE Wrap(I("bu-base", "dateOfConstruction"), {}, NoText,
         Wrap(I("bu-base", "DateOfEvent"), {}, NoText,
              R(<<El(I("bu-base", "beginning"), {},
                     Timestamp(find(bu, beginning).text), <<>>)>>
                \o (IF find(bu, end) = None THEN <<>>
                    ELSE <<El(I("bu-base", "end"), {},
                              Timestamp(find(bu, beginning).text), <<>>)>>),
                NoErr)))

I_external_reference(bu) ==
    IF find(bu, "EXT_REF_REFERENCE") = None THEN R(<<>>, NoErr)
    ELSE Wrap(I("bu-base", "externalReference"), {}, NoText,
         Wrap(I("bu-base", "ExternalReference"), {}, NoText,
              Chain(<<SetText(I("bu-base", "informationSystem"), bu, "EXT_REF_IDENTIFIER"),
                      Wrap(I("bu-base", "informationSystemName"), {}, NoText,
                           SetText(I("gmd", "LocalisedCharacterString"), bu,
                                   "EXT_REF_INF_SYS_NAME")),
                      SetText(I("bu-base", "reference"), bu, "EXT_REF_REFERENCE")>>)))

\* the term looked up in elevation_reference_dict
I_height_ref(bu) ==
    IF find(bu, "HEIGHT_HEIGHT_REF") # None
    THEN Lower(find(bu, "HEIGHT_HEIGHT_REF").text)
    ELSE <<"generalroof">>

I_height_above_ground(bu) ==
    IF find(bu, "HEIGHT_HEIGHT_VAL") = None THEN R(<<>>, NoErr)
    ELSE Wrap(I("bu-base", "heightAboveGround"), {}, NoText,
         Wrap(I("bu-base", "HeightAboveGround"), {}, NoText,
              Chain(<<Lookup(I("bu-base", "heightReference"), I("xlink", "href"),
                             elevation_reference_dict, I_height_ref(bu)),
                      R(<<Sub(I("bu-base", "lowReference"))>>, NoErr),
                      IF find(bu, "HEIGHT_HEIGHT_STAT") = None
                      THEN R(<<Sub(I("bu-base", "status"))>>, "AttributeError")
                      ELSE Lookup(I("bu-base", "status"), I("xlink", "href"),
                                  height_status_dict,
                                  Lower(find(bu, "HEIGHT_HEIGHT_STAT").text)),
                      R(<<El(I("bu-base", "value"), {<<Plain("uom"), <<"m">>>>},
                             find(bu, "HEIGHT_HEIGHT_VAL").text, <<>>)>>, NoErr)>>)))

I_inspire_id(bu) ==
    Wrap(I("bu-base", "inspireId"), {}, NoText,
    Wrap(I("base", "Identifier"), {}, NoText,
         IF find(bu, "IDENTIFIER_ID_LOC") = None
         THEN R(<<Sub(I("base", "localId")), Sub(I("base", "namespace"))>>,
                "AttributeError")
         ELSE IF find(bu, "IDENTIFIER_ID_NAME") = None
         THEN R(<<El(I("base", "localId"), {}, find(bu, "IDENTIFIER_ID_LOC").text, <<>>),
                  Sub(I("base", "namespace"))>>, "AttributeError")
         ELSE R(<<El(I("base", "localId"), {}, find(bu, "IDENTIFIER_ID_LOC").text, <<>>),
                  El(I("base", "namespace"), {}, find(bu, "IDENTIFIER_ID_NAME").text,
                     <<>>)>>, NoErr)))

I_building_nature(bu) ==
    IF find(bu, "BUILDINGTYPE") = None THEN R(<<>>, NoErr)
    ELSE Lookup(I("bu-base", "buildingNature"), I("xlink", "href"),
                building_nature_dict, Lower(find(bu, "BUILDINGTYPE").text))

\* mutant: the percentage keeps its per-cent sign (strip(')') for strip('%)'))
I_use_block_keeping_percent_sign(use) ==
    LET curr_use == Partition(use, "(")[1]
        percent == Strip(Partition(use, "(")[3], {")"})
    IN  Wrap(I("bu-base", "currentUse"), {}, NoText,
        Wrap(I("bu-base", "CurrentUse"), {}, NoText,
             IF curr_use \in DOMAIN current_use_dict
             THEN R(<<El(I("bu-base", "currentUse"),
                         {<<I("xlink", "href"), current_use_dict[curr_use]>>},
                         NoText, <<>>),
                      El(I("bu-base", "percentage"), {}, percent, <<>>)>>, NoErr)
             ELSE R(<<Sub(I("bu-base", "currentUse")), Sub(I("bu-base", "percentage"))>>,
                    "CodeListLookupFailure")))

\* one pass of the loop over uses: the four elements, then partition, strip
\* and the look-up of the term as it stands
I_use_block(use) ==
    LET curr_use == Partition(use, "(")[1]
        percent == Strip(Partition(use, "(")[3], {"%", ")"})
    IN  Wrap(I("bu-base", "currentUse"), {}, NoText,
        Wrap(I("bu-base", "CurrentUse"), {}, NoText,
             IF curr_use \in DOMAIN current_use_dict
             THEN R(<<El(I("bu-base", "currentUse"),
                         {<<I("xlink", "href"), current_use_dict[curr_use]>>},
                         NoText, <<>>),
                      El(I("bu-base", "percentage"), {}, percent, <<>>)>>, NoErr)
             ELSE R(<<Sub(I("bu-base", "currentUse")), Sub(I("bu-base", "percentage"))>>,
                    "CodeListLookupFailure")))

I_current_use(bu) ==
    IF find(bu, "USE_M") = None THEN R(<<>>, NoErr)
    ELSE LET uses == Split(find(bu, "USE_M").text, ",")
         IN  Chain([i \in 1..Len(uses) |-> I_use_block(uses[i])])

I_geometry(bu) ==
    LET co == find(bu, COORDINATES)
        ring(coordinates) ==
            El(I("bu-base", "geometry"), {}, NoText,
               <<El(I("gml", "Polygon"), {}, NoText,
                    <<El(I("gml", "exterior"), {}, NoText,
                         <<El(I("gml", "LinearRing"), {}, NoText,
                              <<coordinates>>)>>)>>)>>)
    IN  Wrap(I("bu-core2d", "geometry2D"), {}, NoText,
        Wrap(I("bu-base", "BuildingGeometry2D"), {}, NoText,
             IF co = None
             THEN R(<<ring(Sub(I("gml", "coordinates"))),
                      Sub(I("bu-base", "referenceGeometry")),
                      Sub(I("bu-base", "horizontalGeometryReference")),
                      Sub(I("bu-base", "horizontalGeometryEstimatedAccuracy"))>>,
                    "AttributeError")
             ELSE R(<<ring(El(I("gml", "coordinates"), co.attrib, co.text, <<>>)),
                      El(I("bu-base", "referenceGeometry"), {}, <<"false">>, <<>>),
                      Sub(I("bu-base", "horizontalGeometryReference")),
                      El(I("bu-base", "horizontalGeometryEstimatedAccuracy"),
                         {<<Plain("uom"), <<"!">>>>}, <<"0">>, <<>>)>>, NoErr)))

\* the sections of the loop body that come before HEIGHT_ABOVE_GROUND
InspireBeforeHeight(bu) ==
    <<I_lifespan(bu),
      I_condition(bu),
      I_date(bu, "DATE_C_BEGINNING", "DATE_C_END"),
      I_date(bu, "DATE_R_BEGINNING", "DATE_R_END"),
      I_external_reference(bu)>>

\* the body of the loop of Inspire.translate for one building: the member
\* appended to the root, and the exception that left the loop
InspireMember(bu) ==
    Wrap(I("wfs", "member"), {}, NoText,
    Wrap(I("bu-core2d", "Building"), {}, NoText,
         Chain(InspireBeforeHeight(bu) \o
               <<I_height_above_ground(bu),
                 I_inspire_id(bu),
                 I_building_nature(bu),
                 I_current_use(bu),
                 CopyIfPresent(I("bu-base", "numberOfBuildingUnits"), bu, "UNITS"),
                 CopyIfPresent(I("bu-base", "numberOfFloorsAboveGround"), bu, "FLOORS"),
                 I_geometry(bu)>>)))

---------------------------------------------------------------------------
(* CityGML.translate: the statements of the loop body, section by section.   *)
(* The two UnboundLocalError raised by make_demand are named after what they *)
(* report: "EnergyCarrierMismatch" and "NonContiguousYears".                 *)

\* an externalReference block: informationSystem from one field, name from another
G_reference(bu, system, name) ==
    Wrap(G("core", "externalReference"), {}, NoText,
         Chain(<<SetText(G("core", "informationSystem"), bu, system),
                 Wrap(G("core", "externalObject"), {}, NoText,
                      SetText(G("core", "name"), bu, name))>>))

G_external_reference(bu) ==
    IF find(bu, "EXT_REF_REFERENCE") = None THEN R(<<>>, NoErr)
    ELSE G_reference(bu, "EXT_REF_IDENTIFIER", "EXT_REF_REFERENCE")

G_id(bu) ==
    IF find(bu, "IDENTIFIER_ID_LOC") = None THEN R(<<>>, NoErr)
    ELSE G_reference(bu, "IDENTIFIER_ID_NAME", "IDENTIFIER_ID_LOC")

\* the source fields make_demand reads for a carrier
SOURCE(energy_carrier) ==
    IF energy_carrier = "electricity" THEN "ENERGYAMOUNT_E_SOURCE_E"
    ELSE "ENERGYAMOUNT_E_SOURCE_T"
YEAR_ONLY(energy_carrier) ==
    IF energy_carrier = "electricity" THEN "ENERGYAMOUNT_E_YEAR_ONLY_E"
    ELSE "ENERGYAMOUNT_E_YEAR_ONLY_T"
UOM(energy_carrier) ==
    IF energy_carrier = "electricity" THEN "CONSUMONORM_UOM_E" ELSE "CONSUMONORM_UOM_T"
VALORE(energy_carrier) ==
    IF energy_carrier = "electricity" THEN "CONSUMONORM_VALORE_E"
    ELSE "CONSUMONORM_VALORE_T"
CarrierType(energy_carrier) ==
    IF energy_carrier = "electricity" THEN <<"Electricity">> ELSE <<"HotWater">>

\* the check of line 515: the years count as consecutive
YearsConsecutive(years) ==
    LET sorted == Sorted(years)
    IN  Len(years) = ToInt(sorted[Len(years)]) - ToInt(sorted[1]) + 1

\* year_values = {y: v for y, v in zip(years, energy_values)}: the pairs zip
\* makes, a later pair replacing an earlier one with the same year
ZipLen(years, energy_values) ==
    IF Len(years) < Len(energy_values) THEN Len(years) ELSE Len(energy_values)

HasYearValue(years, energy_values, y) ==
    \E i \in 1..ZipLen(years, energy_values) : years[i] = y

YearValue(years, energy_values, y) ==
    LET k == CHOOSE i \in 1..ZipLen(years, energy_values) :
                 /\ years[i] = y
                 /\ \A j \in (i + 1)..ZipLen(years, energy_values) : years[j] # y
    IN  energy_values[k]

\* mutant: the values are written in the order the years were collected
ValueOrderAsCollected(years) == years

\* the order in which the values are written out
ValueOrder(years) == Sorted(years)

\* ''.join('{v} '.format(v=year_values[y]) for y in sorted(years)).strip()
ValuesText(years, energy_values) ==
    LET order == ValueOrder(years)
    IN  Strip(Concat([i \in 1..Len(years) |->
                         YearValue(years, energy_values, order[i]) \o <<" ">>]),
              Whitespace)

\* energy:timeInterval text: str(len(years))
\* mutant: the interval is one year whatever the years
IntervalOfOneYear(years) == <<"1">>

\* time_interval.text = str(len(years))  # number of years
IntervalText(years) == Str(Len(years))

\* the children of energy:RegularTimeSeries while make_demand runs
G_time_series(years, uom, energy_values) ==
    LET properties ==
            El(G("energy", "variableProperties"), {}, NoText,
               <<El(G("energy", "TimeValuesProperties"), {}, NoText,
                    <<El(G("energy", "acquisitionMethod"), {}, <<"measurement">>, <<>>),
                      El(G("energy", "interpolationType"), {},
                         <<"instantaneousTotal">>, <<>>)>>)>>)
        extent(begin, end) ==
            El(G("energy", "temporalExtent"), {}, NoText,
               <<El(G("gml", "TimePeriod"), {}, NoText,
                    <<El(G("gml", "beginPosition"), {}, begin, <<>>),
                      El(G("gml", "endPosition"), {}, end, <<>>)>>)>>)
        first == Sorted(years)[1]
        last == Sorted(years)[Len(years)]
        unit == {<<Plain("unit"), <<"year">>>>}
    IN  IF years = <<>>
        THEN R(<<properties, extent(NoText, NoText)>>, "IndexError")
        ELSE IF ~(IsNumeric(first) /\ IsNumeric(last))
        THEN R(<<properties, extent(first, last),
                 El(G("energy", "timeInterval"), unit, NoText, <<>>),
                 Sub(G("energy", "values"))>>, "ValueError")
        ELSE IF ~YearsConsecutive(years)
        THEN R(<<properties, extent(first, last),
                 El(G("energy", "timeInterval"), unit, NoText, <<>>),
                 Sub(G("energy", "values"))>>, "NonContiguousYears")
        ELSE IF \E i \in 1..Len(years) : ~HasYearValue(years, energy_values, years[i])
        THEN R(<<properties, extent(first, last),
                 El(G("energy", "timeInterval"), unit, IntervalText(years), <<>>),
                 El(G("energy", "values"), {<<Plain("uom"), uom>>}, NoText, <<>>)>>,
               "KeyError")
        ELSE R(<<properties, extent(first, last),
                 El(G("energy", "timeInterval"), unit, IntervalText(years), <<>>),
                 El(G("energy", "values"), {<<Plain("uom"), uom>>},
                    ValuesText(years, energy_values), <<>>)>>, NoErr)

\* mutant: the source field is not compared with the carrier
SourceMatchesAnyway(energy_carrier, energy_source) == TRUE

\* the expected carrier name the source field is compared with
SourceMatches(energy_carrier, energy_source) == energy_source = <<energy_carrier>>

make_demand(bu, energy_carrier) ==
    IF find(bu, SOURCE(energy_carrier)) = None THEN R(<<>>, "AttributeError")
    ELSE IF ~SourceMatches(energy_carrier,
                           Lower(find(bu, SOURCE(energy_carrier)).text))
    THEN R(<<>>, "EnergyCarrierMismatch")
    ELSE IF find(bu, UOM(energy_carrier)) = None THEN R(<<>>, "AttributeError")
    ELSE Wrap(G("energy", "demands"), {}, NoText,
         Wrap(G("energy", "EnergyDemand"), {}, NoText,
              Chain(<<Wrap(G("energy", "energyAmount"), {}, NoText,
                      Wrap(G("energy", "RegularTimeSeries"), {}, NoText,
                           G_time_series(
                               Texts(find_all(bu, YEAR_ONLY(energy_carrier))),
                               Lower(find(bu, UOM(energy_carrier)).text),
                               Texts(find_all(bu, VALORE(energy_carrier)))))),
                      R(<<El(G("energy", "endUse"), {}, <<"otherOrCombination">>, <<>>),
                          El(G("energy", "energyCarrierType"),
                             {<<Plain("codeSpace"),
                                Uri("https://www.sig3d.org/codelists/citygml/2.0/energy/0.6.0/energy_EnergyCarrierType.xml")>>},
                             CarrierType(energy_carrier), <<>>)>>, NoErr)>>)))

\* if not all(i is None for i in bu.find(VALORE, _all=True)): make_demand(carrier)
G_demand(bu, energy_carrier) ==
    IF \A i \in 1..Len(find_all(bu, VALORE(energy_carrier))) :
           find_all(bu, VALORE(energy_carrier))[i] = None
    THEN R(<<>>, NoErr)
    ELSE make_demand(bu, energy_carrier)

\* an element given its codeSpace first, then the text dict[term]
LookupText(tag, codeSpace, dict, term) ==
    IF term \in DOMAIN dict
    THEN R(<<El(tag, {<<Plain("codeSpace"), Uri(codeSpace)>>}, dict[term], <<>>)>>, NoErr)
    ELSE R(<<El(tag, {<<Plain("codeSpace"), Uri(codeSpace)>>}, NoText, <<>>)>>,
           "CodeListLookupFailure")

G_usage(bu) ==
    IF find(bu, "USE_S") = None THEN R(<<>>, NoErr)
    ELSE LookupText(G("bldg", "usage"),
             "https://www.sig3d.org/codelists/citygml/2.0/building/2.0/_AbstractBuilding_usage.xml",
             usage_dict, Lower(find(bu, "USE_S").text))

G_roof_type(bu) ==
    IF find(bu, "ROOF_TYPE") = None THEN R(<<>>, NoErr)
    ELSE LookupText(G("bldg", "roofType"),
             "https://www.sig3d.org/codelists/citygml/2.0/building/2.0/_AbstractBuilding_roofType.xml",
             roof_type_dict, Lower(find(bu, "ROOF_TYPE").text))

RECURSIVE Repeat(_, _)
Repeat(text, n) == IF n <= 0 THEN <<>> ELSE text \o Repeat(text, n - 1)

\* str.rstrip(chars)
RECURSIVE RStrip(_, _)
RStrip(s, chars) ==
    IF s = <<>> THEN s
    ELSE IF s[Len(s)] \in chars THEN RStrip(SubSeq(s, 1, Len(s) - 1), chars)
    ELSE s

\* mutant: the comma after the last height is not stripped
StoreyHeightsKeepingComma(hei, floors) == Repeat(hei \o <<",">>, ToInt(floors))

\* ''.join(['{h},'.format(h=hei) for i in range(int(floors))]).rstrip(',')
StoreyHeights(hei, floors) == RStrip(Repeat(hei \o <<",">>, ToInt(floors)), {","})

G_storeys(bu) ==
    IF find(bu, "FLOORS") = None THEN R(<<>>, NoErr)
    ELSE Chain(<<R(<<El(G("bldg", "storeysAboveGround"), {},
                        find(bu, "FLOORS").text, <<>>)>>, NoErr),
                 IF find(bu, "H_FLOOR") = None THEN R(<<>>, NoErr)
                 ELSE IF ~IsNumeric(find(bu, "FLOORS").text)
                 THEN R(<<El(G("bldg", "storeyHeightsAboveGround"),
                             {<<Plain("uom"), <<"m">>>>}, NoText, <<>>)>>, "ValueError")
                 ELSE R(<<El(G("bldg", "storeyHeightsAboveGround"),
                             {<<Plain("uom"), <<"m">>>>},
                             StoreyHeights(find(bu, "H_FLOOR").text,
                                           find(bu, "FLOORS").text), <<>>)>>, NoErr)>>)

G_geometry(bu) ==
    LET co == find(bu, COORDINATES)
        within(coordinates) ==
            El(G("bldg", "lod0FootPrint"), {}, NoText,
               <<El(G("gml", "MultiSurface"), {}, NoText,
                    <<El(G("gml", "surfaceMember"), {}, NoText,
                         <<El(G("gml", "Polygon"), {}, NoText,
                              <<El(G("gml", "outerBoundaryIs"), {}, NoText,
                                   <<El(G("gml", "LinearRing"), {}, NoText,
                                        <<coordinates>>)>>)>>)>>)>>)>>)
    IN  IF co = None
        THEN R(<<within(Sub(G("gml", "coordinates")))>>, "AttributeError")
        ELSE R(<<within(El(G("gml", "coordinates"), co.attrib, co.text, <<>>))>>, NoErr)

\* REFURBISHMENT_MEASURE: both positions carry the tag gml:beginPosition
G_refurbishment(bu) ==
    LET measure(begin, end, level) ==
            El(G("energy", "refurbishmentMeasure"), {}, NoText,
               <<El(G("energy", "RefurbishmentMeasure"), {}, NoText,
                    <<El(G("energy", "date"), {}, NoText,
                         <<El(G("energy", "DateOfEvent"), {}, NoText,
                              <<El(G("energy", "period"), {}, NoText,
                                   <<El(G("gml", "TimePeriod"), {}, NoText,
                                        <<El(G("gml", "beginPosition"), {}, begin, <<>>),
                                          El(G("gml", "beginPosition"), {}, end, <<>>)
                                        >>)>>)>>)>>),
                      El(G("energy", "level"), {}, level, <<>>)>>)>>)
    IN  IF find(bu, "DATE_R_BEGINNING") = None THEN R(<<>>, NoErr)
        ELSE IF find(bu, "DATE_R_END") = None
        THEN R(<<measure(find(bu, "DATE_R_BEGINNING").text, NoText, NoText)>>,
               "AttributeError")
        ELSE R(<<measure(find(bu, "DATE_R_BEGINNING").text,
                         find(bu, "DATE_R_END").text, <<"unknown">>)>>, NoErr)

G_certification(bu) ==
    IF find(bu, "ENERGYPERFORMANCE_PERF_CLASS") = None THEN R(<<>>, NoErr)
    ELSE Wrap(G("energy", "energyPerformanceCertification"), {}, NoText,
         Wrap(G("energy", "EnergyPerformanceCertification"), {}, NoText,
              IF find(bu, "ENERGYPERFORMANCE_PERF_METHOD") = None
              THEN R(<<El(G("energy", "rating"), {},
                          find(bu, "ENERGYPERFORMANCE_PERF_CLASS").text, <<>>),
                       Sub(G("energy", "name")),
                       Sub(G("energy", "certificationId"))>>, "AttributeError")
              ELSE R(<<El(G("energy", "rating"), {},
                          find(bu, "ENERGYPERFORMANCE_PERF_CLASS").text, <<>>),
                       El(G("energy", "name"), {},
                          find(bu, "ENERGYPERFORMANCE_PERF_METHOD").text, <<>>),
                       Sub(G("energy", "certificationId"))>>, NoErr)))

\* the term looked up in height_reference_dict
G_height_ref(bu) == Lower(find(bu, "HEIGHT_HEIGHT_REF").text)

G_height_above_ground(bu) ==
    IF find(bu, "HEIGHT_HEIGHT_VAL") = None THEN R(<<>>, NoErr)
    ELSE Wrap(G("energy", "heightAboveGround"), {}, NoText,
         Wrap(G("energy", "HeightAboveGround"), {}, NoText,
              IF find(bu, "HEIGHT_HEIGHT_REF") = None
              THEN R(<<Sub(G("energy", "heightReference")), Sub(G("energy", "value"))>>,
                     "AttributeError")
              ELSE IF G_height_ref(bu) \notin DOMAIN height_reference_dict
              THEN R(<<Sub(G("energy", "heightReference")), Sub(G("energy", "value"))>>,
                     "CodeListLookupFailure")
              ELSE R(<<El(G("energy", "heightReference"), {},
                          height_reference_dict[G_height_ref(bu)], <<>>),
                       El(G("energy", "value"), {<<Plain("uom"), <<"m">>>>},
                          find(bu, "HEIGHT_HEIGHT_VAL").text, <<>>)>>, NoErr)))

\* a typed value: outer > Inner > [type, value with its unit]
G_typed_value(bu, attribute, outer, inner, type, uom) ==
    IF find(bu, attribute) = None THEN R(<<>>, NoErr)
    ELSE R(<<El(G("energy", outer), {}, NoText,
                <<El(G("energy", inner), {}, NoText,
                     <<El(G("energy", "type"), {}, <<type>>, <<>>),
                       El(G("energy", "value"), {<<Plain("uom"), <<uom>>>>},
                          find(bu, attribute).text, <<>>)>>)>>)>>, NoErr)

G_building_type(bu) ==
    IF find(bu, "BUILDINGTYPE") = None THEN R(<<>>, NoErr)
    ELSE LookupText(G("energy", "buildingType"),
             "https://www.sig3d.org/codelists/citygml/2.0/energy/0.6.0/energy_BuildingType.xml",
             building_type_dict, Lower(find(bu, "BUILDINGTYPE").text))

\* the sections of the loop body that come before HEIGHT_ABOVE_GROUND
CityGMLBeforeHeight(bu) ==
    <<CopyIfPresent(G("gml", "name"), bu, "NAME"),
      IF find(bu, "LIFESPAN_BEGINNING") = None THEN R(<<>>, NoErr)
      ELSE R(<<El(G("core", "creationDate"), {},
                  Date(find(bu, "LIFESPAN_BEGINNING").text), <<>>)>>, NoErr),
      IF find(bu, "LIFESPAN_END") = None THEN R(<<>>, NoErr)
      ELSE R(<<El(G("core", "terminationDate"), {},
                  Date(find(bu, "LIFESPAN_END").text), <<>>)>>, NoErr),
      G_external_reference(bu),
      G_id(bu),
      G_demand(bu, "electricity"),
      G_demand(bu, "thermal"),
      G_usage(bu),
      CopyIfPresent(G("bldg", "yearOfConstruction"), bu, "DATE_C_BEGINNING"),
      G_roof_type(bu),
      G_storeys(bu),
      G_geometry(bu),
      G_refurbishment(bu),
      G_certification(bu)>>

\* the body of the loop of CityGML.translate for one building
CityGMLMember(bu) ==
    Wrap(G("core", "cityObjectMember"), {}, NoText,
    Wrap(G("bldg", "Building"), {}, NoText,
         Chain(CityGMLBeforeHeight(bu) \o
               <<G_height_above_ground(bu),
                 G_typed_value(bu, "VOLUME_VALUE", "volume", "VolumeType",
                               "grossVolume", "m3"),
                 G_typed_value(bu, "ENERGYPERF_VOLUME_VALUE", "volume", "VolumeType",
                               "energyReferenceVolume", "m3"),
                 G_typed_value(bu, "SURFACE_VALUE", "floorArea", "FloorArea",
                               "grossFloorArea", "m2"),
                 G_building_type(bu)>>)))

---------------------------------------------------------------------------
(* The builders' constructors and the run of __main__ *)

\* mutant: the constructor already hangs an empty member under the root
InspireRootWithEmptyMember(ts) ==
    El(I("wfs", "FeatureCollection"), {<<Plain("timeStamp"), ts>>}, NoText,
       <<Sub(I("wfs", "member"))>>)

\* Inspire.__init__: the root element, with the timeStamp read from the clock
InspireRoot(ts) ==
    El(I("wfs", "FeatureCollection"),
       {<<Plain("xmlns"), Uri("http://www.opengis.net/wfs")>>,
        <<Plain("numberMatched"), <<"unknown">>>>,
        <<Plain("numberReturned"), <<"1", "0", "0", "0">>>>,
        <<Plain("timeStamp"), ts>>,
        <<I("xsi", "schemaLocation"),
          Uri("http://www.opengis.net/wfs/2.0 http://schemas.opengis.net/wfs/2.0/wfs.xsd http://www.opengis.net/gml/3.2 http://schemas.opengis.net/gml/3.2.1/gml.xsd http://inspire.ec.europa.eu/schemas/bu-core2d/4.0 https://inspire.ec.europa.eu/schemas/bu-core2d/4.0/BuildingsCore2D.xsd")>>},
       NoText, <<>>)

\* CityGML.__init__: the root element
CityGMLRoot ==
    El(G("core", "CityModel"),
       {<<G("xsi", "schemaLocation"),
          Uri("http://www.sig3d.org/citygml/2.0/energy/1.0 http://www.citygmlwiki.org/images/a/ac/EnergyADE.xsd")>>},
       NoText, <<>>)

NoRoot == El(<<"", "">>, {}, NoText, <<>>)
NoFile == <<>>

\* the loop body of the builder chosen by args.standard
Member(std, bu) == IF std = "INSPIRE" THEN InspireMember(bu) ELSE CityGMLMember(bu)

\* mutant: the loop skips a building whose translation raised
LoopGoesOnAnyway(e) == TRUE

\* translate() has no handler around the loop body: the loop goes on to the
\* next building only when the body raised nothing
LoopGoesOn(e) == e = NoErr

\* mutant: the member takes the place of the members the root already has
ReplaceMembers(r, member) == [r EXCEPT !.ch = <<member>>]

\* member = eT.SubElement(self.root, ...): the member is appended to the root
AppendMember(r, member) == [r EXCEPT !.ch = Append(@, member)]

\* CitiEG = CitiEnGov(gml_path=args.input, input_mode=mode)
Construct ==
    /\ pc = "start"
    /\ \E order \in Orderings(ListOfUuids(feature_members)) :
         IF FirstIndex >= Len(order)
         THEN /\ pc' = "raised"
              /\ err' = "IndexError"
              /\ UNCHANGED <<building_UUIDs, UUID_index, UUID, building>>
         ELSE IF GetBuildingRaises(feature_members)
         THEN /\ pc' = "raised"
              /\ err' = "AttributeError"
              /\ UNCHANGED <<building_UUIDs, UUID_index, UUID, building>>
         ELSE /\ pc' = "constructed"
              /\ building_UUIDs' = order
              /\ UUID_index' = FirstIndex
              /\ UUID' = order[FirstIndex + 1]
              /\ building' = get_building(feature_members, order[FirstIndex + 1])
              /\ err' = err
    /\ UNCHANGED <<feature_members, standard, now, root, returned, written>>

\* standard = Inspire() or standard = CityGML()
MakeStandard ==
    /\ pc = "constructed"
    /\ root' = IF standard = "INSPIRE" THEN InspireRoot(now) ELSE CityGMLRoot
    /\ pc' = "translating"
    /\ UNCHANGED <<feature_members, standard, now, building_UUIDs, UUID_index, UUID,
                   building, returned, err, written>>

\* one pass of the for loop of translate(): __next__, then the loop body
TranslateStep ==
    /\ pc = "translating"
    /\ LET n == next_(feature_members, building_UUIDs, UUID_index, UUID, building)
           m == Member(standard, n.bu)
       IN  /\ UUID_index' = n.UUID_index
           /\ UUID' = n.UUID
           /\ building' = n.building
           /\ returned' = Append(returned, [stop |-> n.stop, bu |-> n.bu])
           /\ IF n.stop
              THEN pc' = "translated" /\ UNCHANGED <<root, err>>
              ELSE IF n.raised # NoErr
              THEN pc' = "raised" /\ err' = n.raised /\ root' = root
              ELSE /\ root' = AppendMember(root, m.ch[1])
                   /\ err' = IF m.err # NoErr THEN m.err ELSE err
                   /\ pc' = IF LoopGoesOn(m.err) THEN "translating" ELSE "raised"
    /\ UNCHANGED <<feature_members, standard, now, building_UUIDs, written>>

\* standard.write_to_file(args.output)
WriteToFile ==
    /\ pc = "translated"
    /\ written' = Append(written, root)
    /\ pc' = "written"
    /\ UNCHANGED <<feature_members, standard, now, building_UUIDs, UUID_index, UUID,
                   building, root, returned, err>>

\* the translate() calls that returned so far, each at the StopIteration of
\* its for loop
TranslateCalls == Cardinality({k \in DOMAIN returned : returned[k].stop})

\* a caller of the classes calls write_to_file on the builder it has just made,
\* before any translate() call
WriteEarly ==
    /\ pc = "translating"
    /\ returned = <<>>
    /\ written = NoFile
    /\ written' = Append(written, root)
    /\ UNCHANGED <<feature_members, standard, now, pc, building_UUIDs, UUID_index, UUID,
                   building, root, returned, err>>

\* a caller of the classes calls translate() on the same builder once more,
\* after the earlier call returned: with the document it passed before, or
\* with the input loaded anew (CitiEnGov.__init__)
TranslateAgain ==
    /\ pc = "translated"
    /\ TranslateCalls < MaxTranslateCalls
    /\ pc' = "translating"
    /\ err' = err
    /\ \/ UNCHANGED <<building_UUIDs, UUID_index, UUID, building>>
       \/ \E order \in Orderings(ListOfUuids(feature_members)) :
              /\ building_UUIDs' = order
              /\ UUID_index' = FirstIndex
              /\ UUID' = order[FirstIndex + 1]
              /\ building' = get_building(feature_members, order[FirstIndex + 1])
    /\ UNCHANGED <<feature_members, standard, now, root, returned, written>>

\* the program is started once more on the same input, with the same
\* arguments: a new process, nothing kept but the file the first run wrote
Rerun ==
    /\ pc = "written"
    /\ Len(written) = 1
    /\ pc' = "start"
    /\ now' \in (IF standard = "INSPIRE"
                 THEN {<<"2026-01-01T00:00:00">>, <<"2026-01-02T00:00:00">>}
                 ELSE {now})
    /\ building_UUIDs' = <<>>
    /\ UUID_index' = 0
    /\ UUID' = NoText
    /\ building' = NoBuilding
    /\ root' = NoRoot
    /\ returned' = <<>>
    /\ err' = NoErr
    /\ UNCHANGED <<feature_members, standard, written>>

\* the consumers holding the iterator of the one loaded document
Consumers == {"first", "second"}

\* a consumer calls next() on the loaded document; the call is recorded with
\* the consumer that made it
NextCall ==
    /\ pc = "constructed"
    /\ UUID_index < MaxIndex
    /\ \E consumer \in Consumers :
         LET n == next_(feature_members, building_UUIDs, UUID_index, UUID, building)
         IN  /\ UUID_index' = n.UUID_index
             /\ UUID' = n.UUID
             /\ building' = n.building
             /\ returned' = Append(returned,
                                   [stop |-> n.stop, bu |-> n.bu, by |-> consumer])
    /\ UNCHANGED <<feature_members, standard, now, pc, building_UUIDs, root, err, written>>

\* a consumer calls iter() on the loaded document: __iter__ returns self
Iter ==
    /\ pc = "constructed"
    /\ UNCHANGED vars

Next == Construct \/ MakeStandard \/ TranslateStep \/ WriteToFile

NextIter == Construct \/ Iter \/ NextCall

NextApi ==
    Construct \/ MakeStandard \/ WriteEarly \/ TranslateStep \/ TranslateAgain \/ WriteToFile

NextTwice == Construct \/ MakeStandard \/ TranslateStep \/ WriteToFile \/ Rerun

---------------------------------------------------------------------------
(* Source documents *)

A(name, text) == name :> SrcEl(text)

U1 == <<"u1">>
U2 == <<"u2">>

\* the fields both builders need, for the feature member of building uuid
Fields(uuid) ==
    A("LIFESPAN_BEGINNING", <<"2", "0", "1", "0">>)
    @@ A("IDENTIFIER_ID_LOC", <<"id-">> \o uuid)
    @@ A("IDENTIFIER_ID_NAME", <<"CitiEnGov">>)
    @@ (COORDINATES :> [text |-> <<"0,0 4,0 4,3 0,0">>,
                        attrib |-> {<<Plain("decimal"), <<".">>>>,
                                    <<Plain("cs"), <<",">>>>,
                                    <<Plain("ts"), <<" ">>>>}])

Base(uuid) == A("UUID", uuid) @@ Fields(uuid)

\* feature members of the documents of Spec and SpecIter
Members ==
    UNION {{Base(u),
            A("NAME", <<"casa">>) @@ A("UNITS", <<"2">>) @@ Base(u),
            A("UUID", u) @@ A("UNITS", <<"3">>) @@ A("FLOORS", <<"2">>),
            A("BUILDINGTYPE", <<"villa">>) @@ Base(u)} : u \in {U1, U2}}
    \cup {Fields(U1)}

SeqsUpTo(S, n) == UNION {[1..k -> S] : k \in 0..n}

Clock == {<<"2026-01-01T00:00:00">>, <<"2026-01-02T00:00:00">>}

\* the state before the run, for the documents and standards of a specification
InitRun(documents, standards) ==
    /\ feature_members \in documents
    /\ standard \in standards
    /\ now \in (IF standard = "INSPIRE" THEN Clock ELSE {<<"2026-01-01T00:00:00">>})
    /\ pc = "start"
    /\ building_UUIDs = <<>>
    /\ UUID_index = 0
    /\ UUID = NoText
    /\ building = NoBuilding
    /\ root = NoRoot
    /\ returned = <<>>
    /\ err = NoErr
    /\ written = NoFile

Init == InitRun(SeqsUpTo(Members, MaxMembers), {"INSPIRE", "CityGML"})

Spec == Init /\ [][Next]_vars

InitIter == InitRun(SeqsUpTo(Members, MaxMembers), {"CityGML"})

SpecIter == InitIter /\ [][NextIter]_vars

---------------------------------------------------------------------------
(* Claims about the document, its iterator and the run (Spec, SpecIter) *)

\* the document was loaded: the constructor returned
Loaded == building_UUIDs # <<>>

\* the distinct UUID texts of the source document
DistinctUuids ==
    {feature_members[i]["UUID"].text :
        i \in {j \in DOMAIN feature_members : "UUID" \in DOMAIN feature_members[j]}}

\* the positions of the feature members whose UUID text is uuid
MembersOf(uuid) ==
    {i \in DOMAIN feature_members :
        "UUID" \in DOMAIN feature_members[i] /\ feature_members[i]["UUID"].text = uuid}

\* the k-th smallest element of a set of positions
Kth(S, k) == CHOOSE i \in S : Cardinality({j \in S : j < i}) = k - 1

\* the feature members of uuid in document order
GroupOf(uuid) ==
    [k \in 1..Cardinality(MembersOf(uuid)) |-> feature_members[Kth(MembersOf(uuid), k)]]

\* C1: once translate() has run to completion on the fresh builder, the root
\* holds as many members as the source document has distinct UUID values, and
\* every distinct UUID contributed exactly one of them: the member built from
\* the record of all its feature members.
C1_OneMemberPerDistinctUuid ==
    pc \in {"translated", "written"} =>
        /\ Len(root.ch) = Cardinality(DistinctUuids)
        /\ \A u \in DistinctUuids :
               Cardinality({k \in 1..Len(root.ch) :
                               /\ ~returned[k].stop
                               /\ returned[k].bu = Building(u, GroupOf(u))
                               /\ root.ch[k] = Member(standard, Building(u, GroupOf(u))).ch[1]})
                   = 1

C1_Witness ==
    /\ pc = "written"
    /\ Len(feature_members) = 3
    /\ Cardinality(DistinctUuids) = 2
    /\ Len(root.ch) = 2

\* C2: next() on a loaded document yields one record per entry of
\* building_UUIDs, in list order from index 0 (the first entry neither skipped
\* nor yielded twice), and every call after the last entry signals exhaustion,
\* whatever iter() and next() calls came before.
C2_SinglePassInListOrder ==
    pc = "constructed" =>
        \A k \in 1..Len(returned) :
            IF k <= Len(building_UUIDs)
            THEN /\ ~returned[k].stop
                 /\ returned[k].bu = Building(building_UUIDs[k], GroupOf(building_UUIDs[k]))
            ELSE returned[k].stop

C2_Witness ==
    /\ pc = "constructed"
    /\ Len(building_UUIDs) = 2
    /\ Len(returned) = 4
    /\ ~returned[1].stop /\ ~returned[2].stop
    /\ returned[1].bu.UUID # returned[2].bu.UUID
    /\ returned[3].stop /\ returned[4].stop

\* C3: when the translation of a record fails, the run is over at that record:
\* the root holds no member of a later record, the run has stopped with the
\* error, and no output file is written.
C3_FailureAbortsRun ==
    (err # NoErr /\ returned # <<>>) =>
        /\ pc = "raised"
        /\ written = NoFile
        /\ Len(root.ch) = Len(returned)
        /\ Member(standard, returned[Len(returned)].bu).err = err
        /\ \A k \in 1..(Len(returned) - 1) : Member(standard, returned[k].bu).err = NoErr

C3_Witness ==
    /\ pc = "raised"
    /\ err = "CodeListLookupFailure"
    /\ Len(building_UUIDs) = 2
    /\ Len(returned) = 1
    /\ Len(root.ch) = 1
    /\ written = NoFile

RECURSIVE SumLen(_)
SumLen(lists) == IF lists = <<>> THEN 0 ELSE Len(Head(lists)) + SumLen(Tail(lists))

\* C7: the records get_building returns for building_UUIDs partition the
\* feature members: each member is in the fragment list of exactly one record,
\* the one whose UUID equals the member's UUID text; no fragment list is empty.
C7_RecordsPartitionMembers ==
    Loaded =>
        LET record(k) == get_building(feature_members, building_UUIDs[k])
        IN  /\ \A i \in DOMAIN feature_members :
                   {k \in DOMAIN building_UUIDs :
                       feature_members[i] \in Range(record(k).feature_list)}
                   = {k \in DOMAIN building_UUIDs :
                         record(k).UUID = feature_members[i]["UUID"].text}
            /\ \A i \in DOMAIN feature_members :
                   Cardinality({k \in DOMAIN building_UUIDs :
                                   feature_members[i] \in Range(record(k).feature_list)}) = 1
            /\ \A k \in DOMAIN building_UUIDs : record(k).feature_list # <<>>
            /\ SumLen([k \in DOMAIN building_UUIDs |-> record(k).feature_list])
                   = Len(feature_members)

C7_Witness ==
    /\ Loaded
    /\ Len(feature_members) = 3
    /\ Len(building_UUIDs) = 2
    /\ feature_members[1] # feature_members[3]
    /\ feature_members[1]["UUID"] = feature_members[3]["UUID"]

\* the attribute names the source documents of the model use
Attributes == UNION {DOMAIN m : m \in Members}

\* the positions of the fragments of a record that have the attribute
Having(bu, attribute) ==
    {i \in DOMAIN bu.feature_list : attribute \in DOMAIN bu.feature_list[i]}

\* C8: find(attribute) returns the element of the earliest fragment of the
\* record that has the attribute, and None exactly when no fragment has it.
C8_FindFirstIsEarliest ==
    Loaded =>
        \A a \in Attributes :
            IF Having(building, a) = {}
            THEN find(building, a) = None
            ELSE /\ find(building, a) # None
                 /\ find(building, a) = building.feature_list[Kth(Having(building, a), 1)][a]

C8_Witness ==
    /\ Loaded
    /\ Having(building, "UNITS") = {2, 3}
    /\ building.feature_list[2]["UNITS"] # building.feature_list[3]["UNITS"]
    /\ find(building, "UNITS") = building.feature_list[2]["UNITS"]

\* C9: find(attribute, _all=True) is the fragments that have the attribute, in
\* fragment order: one element per such fragment, none for the others, no None.
C9_FindAllIsSubsequence ==
    Loaded =>
        \A a \in Attributes :
            LET all == find_all(building, a)
            IN  /\ Len(all) = Cardinality(Having(building, a))
                /\ \A k \in 1..Len(all) :
                       /\ all[k] # None
                       /\ all[k] = building.feature_list[Kth(Having(building, a), k)][a]

C9_Witness ==
    /\ Loaded
    /\ Len(building.feature_list) = 3
    /\ Having(building, "UNITS") = {1, 3}
    /\ Len(find_all(building, "UNITS")) = 2
    /\ Having(building, "ROOF_TYPE") = {}
    /\ find_all(building, "ROOF_TYPE") = <<>>

---------------------------------------------------------------------------
(* SpecEnergy: one building whose feature members carry the yearly          *)
(* consumption of one carrier, translated by the CityGML builder            *)

NoFields == [x \in {} |-> SrcEl(NoText)]

\* year texts of one and of two digits
Years == {<<"9">>, <<"1", "0">>, <<"1", "1">>, <<"1", "2">>}

\* the consumption value of the i-th feature member: "10", "11", "12", ...
ValueAt(i) == Str(9 + i)

\* the carrier's name as the source field spells it, and another carrier
SourceText(energy_carrier) ==
    IF energy_carrier = "electricity" THEN <<"Electricity">> ELSE <<"Thermal">>

SourceTexts(energy_carrier) == {SourceText(energy_carrier), <<"gas">>}

\* the document: source and unit on the first member; member i has the year
\* ys[i] unless that is NoText, and the value ValueAt(i) when vs[i]
EnergyDocument(energy_carrier, source, ys, vs) ==
    [i \in 1..Len(ys) |->
        (IF ys[i] # NoText THEN A(YEAR_ONLY(energy_carrier), ys[i]) ELSE NoFields)
        @@ (IF vs[i] THEN A(VALORE(energy_carrier), ValueAt(i)) ELSE NoFields)
        @@ (IF i = 1
            THEN A(SOURCE(energy_carrier), source) @@ A(UOM(energy_carrier), <<"kWh">>)
                 @@ Base(U1)
            ELSE A("UUID", U1))]

InitEnergy ==
    \E c \in {"electricity", "thermal"}, n \in 1..MaxEnergyMembers :
        \E src \in (IF n = 1 THEN SourceTexts(c) ELSE {SourceText(c)}),
           ys \in [1..n -> Years \cup {NoText}], vs \in [1..n -> BOOLEAN] :
            InitRun({EnergyDocument(c, src, ys, vs)}, {"CityGML"})

SpecEnergy == InitEnergy /\ [][Next]_vars

\* the carrier of the document, read off its first feature member
DocCarrier ==
    IF SOURCE("electricity") \in DOMAIN feature_members[1] THEN "electricity"
    ELSE "thermal"

\* the texts of an attribute over the feature members that have it, in order
Collected(attribute) ==
    LET has == {i \in DOMAIN feature_members : attribute \in DOMAIN feature_members[i]}
    IN  [k \in 1..Cardinality(has) |-> feature_members[Kth(has, k)][attribute].text]

DocYears == Collected(YEAR_ONLY(DocCarrier))
DocValues == Collected(VALORE(DocCarrier))

YearNumbers == {ToInt(DocYears[i]) : i \in DOMAIN DocYears}
MinYear == CHOOSE y \in YearNumbers : \A z \in YearNumbers : y <= z
MaxYear == CHOOSE y \in YearNumbers : \A z \in YearNumbers : z <= y

YearsDistinct == \A i, j \in DOMAIN DocYears : DocYears[i] = DocYears[j] => i = j
YearsHaveGap == DocYears # <<>> /\ \E y \in MinYear..MaxYear : y \notin YearNumbers

\* make_demand was entered and got as far as the years: the carrier has a value
\* for each year (every feature member has both or neither) and its source
\* field names the carrier
DemandReachedYears ==
    /\ DocValues # <<>>
    /\ Lower(feature_members[1][SOURCE(DocCarrier)].text) = <<DocCarrier>>
    /\ \A i \in DOMAIN feature_members :
           YEAR_ONLY(DocCarrier) \in DOMAIN feature_members[i]
               <=> VALORE(DocCarrier) \in DOMAIN feature_members[i]

\* the building element of the k-th member of the root
BuildingOf(k) == root.ch[k].ch[1]

\* the children of the building of member k that carry the tag
Children(k, tag) == SelectSeq(BuildingOf(k).ch, LAMBDA e : e.tag = tag)

\* the energy:RegularTimeSeries of the first energy:demands of member 1
Series == Children(1, G("energy", "demands"))[1].ch[1].ch[1].ch[1]

\* C4: whenever the set of distinct collected years has a gap between its
\* smallest and largest year, make_demand fails with NonContiguousYears, for
\* lists of any length and with repeated years.
C4_GapFailsWithNonContiguousYears ==
    (pc \in {"raised", "translated", "written"} /\ returned # <<>>
     /\ DemandReachedYears /\ YearsHaveGap)
        => (pc = "raised" /\ err = "NonContiguousYears")

\* the position of the year with number y in the collected years
PositionOf(y) == CHOOSE i \in DOMAIN DocYears : ToInt(DocYears[i]) = y

\* the values of the years MinYear, MinYear + 1, ..., joined by single blanks
RECURSIVE JoinFrom(_)
JoinFrom(y) ==
    IF y > MaxYear THEN <<>>
    ELSE DocValues[PositionOf(y)] \o (IF y = MaxYear THEN <<>> ELSE <<" ">>)
         \o JoinFrom(y + 1)

\* C5: when the collected years are distinct and contiguous and the demand is
\* emitted, the values text is the values in ascending order of their year
\* (the value at the position of the year), joined by single blanks without a
\* trailing blank, and the temporal extent runs from the least to the greatest
\* year.
C5_ValuesByAscendingYear ==
    (pc \in {"translated", "written"} /\ DocValues # <<>>
     /\ YearsDistinct /\ ~YearsHaveGap)
        => /\ Len(Children(1, G("energy", "demands"))) = 1
           /\ Series.ch[4].tag = G("energy", "values")
           /\ Series.ch[4].text = JoinFrom(MinYear)
           /\ Series.ch[2].ch[1].ch[1].text = DocYears[PositionOf(MinYear)]
           /\ Series.ch[2].ch[1].ch[2].text = DocYears[PositionOf(MaxYear)]

C5_Witness ==
    /\ pc = "written"
    /\ DocYears = << <<"1", "1">>, <<"1", "2">>, <<"1", "0">> >>
    /\ DocValues = << <<"1", "0">>, <<"1", "1">>, <<"1", "2">> >>
    /\ Series.ch[4].text = <<"1", "2", " ", "1", "0", " ", "1", "1">>
    /\ Series.ch[2].ch[1].ch[1].text = <<"1", "0">>
    /\ Series.ch[2].ch[1].ch[2].text = <<"1", "2">>

---------------------------------------------------------------------------
(* SpecHeight: buildings whose feature members carry the height fields in    *)
(* the spellings and combinations the two builders tell apart                *)

HeightVal == A("HEIGHT_HEIGHT_VAL", <<"1", "2">>)
HeightRef(term) == A("HEIGHT_HEIGHT_REF", <<term>>)
HeightStat(term) == A("HEIGHT_HEIGHT_STAT", <<term>>)

\* feature members of the documents of SpecHeight
HeightMembers ==
    {HeightVal @@ HeightRef("generalroof") @@ HeightStat("stimata") @@ Base(U1),
     HeightVal @@ HeightRef("GeneralRoof") @@ HeightStat("Stimata") @@ Base(U1),
     HeightVal @@ HeightRef("highestPoint") @@ HeightStat("stimata") @@ Base(U1),
     HeightVal @@ HeightRef("unknownref") @@ HeightStat("stimata") @@ Base(U1),
     HeightVal @@ HeightStat("stimata") @@ Base(U1),
     HeightVal @@ HeightRef("generalroof") @@ HeightStat("misurata") @@ Base(U1),
     Base(U1),
     A("UUID", U1) @@ HeightRef("unknownref"),
     A("UUID", U1) @@ HeightVal,
     A("CONDITION", <<"ruin">>) @@ HeightVal @@ HeightRef("unknownref") @@ Base(U1),
     A("ROOF_TYPE", <<"flat">>) @@ HeightVal @@ HeightRef("unknownref") @@ Base(U1),
     Base(U2),
     HeightVal @@ HeightRef("unknownref") @@ HeightStat("stimata") @@ Base(U2)}

InitHeight ==
    \E n \in 1..MaxHeightMembers :
        \E document \in [1..n -> HeightMembers] :
            InitRun({document}, {"INSPIRE", "CityGML"})

SpecHeight == InitHeight /\ [][Next]_vars

\* the text of an attribute in the earliest fragment of a record that has it
FirstText(bu, attribute) ==
    bu.feature_list[Kth(Having(bu, attribute), 1)][attribute].text

\* the height-reference term a builder looks up for a record: the lower-cased
\* HEIGHT_HEIGHT_REF; without the field, 'generalroof' in the Inspire builder
\* and no term at all in the CityGML builder
HasHeightTerm(std, bu) == std = "INSPIRE" \/ Having(bu, "HEIGHT_HEIGHT_REF") # {}

HeightTerm(std, bu) ==
    IF Having(bu, "HEIGHT_HEIGHT_REF") # {}
    THEN Lower(FirstText(bu, "HEIGHT_HEIGHT_REF"))
    ELSE <<"generalroof">>

\* the builder's height-reference code list
HeightTable(std) ==
    IF std = "INSPIRE" THEN DOMAIN elevation_reference_dict
    ELSE DOMAIN height_reference_dict

\* the sections before the height section ran through for the record
HeightReached(std, bu) ==
    Chain(IF std = "INSPIRE" THEN InspireBeforeHeight(bu)
          ELSE CityGMLBeforeHeight(bu)).err = NoErr

\* the case of C6: the record reaches the height section with a height value
\* and a height-reference term that the builder's code list does not have
HeightLookupMisses(std, bu) ==
    /\ Having(bu, "HEIGHT_HEIGHT_VAL") # {}
    /\ HasHeightTerm(std, bu)
    /\ HeightTerm(std, bu) \notin HeightTable(std)
    /\ HeightReached(std, bu)

\* the tag of the height block of a builder
HeightTag(std) ==
    IF std = "INSPIRE" THEN I("bu-base", "heightAboveGround")
    ELSE G("energy", "heightAboveGround")

\* the height block as it stands when the look-up fails: the elements created
\* before the look-up, none of them with a text or an attribute
PartialHeightBlock(std) ==
    IF std = "INSPIRE"
    THEN El(I("bu-base", "heightAboveGround"), {}, NoText,
            <<El(I("bu-base", "HeightAboveGround"), {}, NoText,
                 <<Sub(I("bu-base", "heightReference"))>>)>>)
    ELSE El(G("energy", "heightAboveGround"), {}, NoText,
            <<El(G("energy", "HeightAboveGround"), {}, NoText,
                 <<Sub(G("energy", "heightReference")), Sub(G("energy", "value"))>>)>>)

\* C6 as stated: when HEIGHT_HEIGHT_VAL is present and the height-reference term
\* is not in the builder's code list, translation fails with
\* CodeListLookupFailure and the building has no heightAboveGround element in
\* the output tree at that moment.  (Read for the records that reach the height
\* section.)
C6_NoPartialHeightBlock ==
    \A k \in 1..Len(returned) :
        (~returned[k].stop /\ HeightLookupMisses(standard, returned[k].bu))
            => /\ pc = "raised"
               /\ err = "CodeListLookupFailure"
               /\ Children(k, HeightTag(standard)) = <<>>

\* C6 amended: when HEIGHT_HEIGHT_VAL is present, the record reaches the height
\* section and the height-reference term is not in the builder's code list,
\* translation fails with CodeListLookupFailure at that record and no file is
\* written; at that moment the last child of the building is the partial height
\* block (the elements created before the look-up, without text or attribute),
\* which carries neither a resolved reference nor the height value.
C6_HeightMissFailsWithPartialBlock ==
    \A k \in 1..Len(returned) :
        (~returned[k].stop /\ HeightLookupMisses(standard, returned[k].bu))
            => /\ k = Len(returned)
               /\ pc = "raised"
               /\ err = "CodeListLookupFailure"
               /\ written = NoFile
               /\ Len(root.ch) = k
               /\ Children(k, HeightTag(standard)) = <<PartialHeightBlock(standard)>>
               /\ BuildingOf(k).ch[Len(BuildingOf(k).ch)] = PartialHeightBlock(standard)

C6_Witness ==
    /\ pc = "raised"
    /\ err = "CodeListLookupFailure"
    /\ standard = "CityGML"
    /\ Len(returned) = 1
    /\ Len(returned[1].bu.feature_list) = 2
    /\ Having(returned[1].bu, "HEIGHT_HEIGHT_VAL") = {2}
    /\ HeightTerm(standard, returned[1].bu) = <<"highestpoint">>
    /\ HeightLookupMisses(standard, returned[1].bu)
    /\ Children(1, HeightTag(standard)) = <<PartialHeightBlock(standard)>>

---------------------------------------------------------------------------
(* SpecUse: one building whose USE_M lists its uses, translated by the       *)
(* Inspire builder                                                           *)

\* use terms: three keys of current_use_dict, a key with a capital letter, a
\* term the code list does not have
UseTerms == {"residenziale", "negozio", "laboratorio", "Residenziale", "ufficio"}

Percentages == {<<"8", "0">>, <<"5">>}

\* the entries of the form term(p%)
UseEntries == [term : UseTerms, p : Percentages]

EntryText(e) == <<e.term, "(">> \o e.p \o <<"%", ")">>

\* the entries of a USE_M string: those of the form term(p%) and a bare term
UseTexts == {EntryText(e) : e \in UseEntries} \cup {<<"negozio">>}

\* texts joined by a separator
RECURSIVE Join(_, _)
Join(texts, sep) ==
    IF texts = <<>> THEN <<>>
    ELSE IF Len(texts) = 1 THEN texts[1]
    ELSE texts[1] \o <<sep>> \o Join(Tail(texts), sep)

UseDocument(uses) == <<A("USE_M", Join(uses, ",")) @@ Base(U1)>>

InitUse ==
    \E n \in 1..MaxUses :
        \E uses \in [1..n -> UseTexts] :
            InitRun({UseDocument(uses)}, {"INSPIRE"})

SpecUse == InitUse /\ [][Next]_vars

\* the currentUse block of an entry whose term is in the code list
UseBlock(e) ==
    El(I("bu-base", "currentUse"), {}, NoText,
       <<El(I("bu-base", "CurrentUse"), {}, NoText,
            <<El(I("bu-base", "currentUse"),
                 {<<I("xlink", "href"), current_use_dict[<<e.term>>]>>}, NoText, <<>>),
              El(I("bu-base", "percentage"), {}, e.p, <<>>)>>)>>)

\* C10: for a USE_M string of n comma-separated entries term(p%), the Inspire
\* builder emits, when every term is a key of the current-use code list,
\* exactly n currentUse blocks in entry order, the i-th with the URI of the
\* i-th term and the percentage text p; when some term is not a key, the
\* translation of the record fails.
C10_UseBlocksPerEntry ==
    returned # <<>> =>
        \A n \in 1..MaxUses :
            \A es \in [1..n -> UseEntries] :
                feature_members[1]["USE_M"].text = Join([i \in 1..n |-> EntryText(es[i])], ",")
                    => IF \A i \in 1..n : <<es[i].term>> \in DOMAIN current_use_dict
                       THEN /\ pc \in {"translating", "translated", "written"}
                            /\ err = NoErr
                            /\ Children(1, I("bu-base", "currentUse"))
                                   = [i \in 1..n |-> UseBlock(es[i])]
                       ELSE /\ pc = "raised"
                            /\ err = "CodeListLookupFailure"
                            /\ written = NoFile

C10_Witness ==
    /\ pc = "written"
    /\ feature_members[1]["USE_M"].text
           = <<"residenziale", "(", "8", "0", "%", ")", ",", "negozio", "(", "5", "%", ")">>
    /\ Len(Children(1, I("bu-base", "currentUse"))) = 2
    /\ Children(1, I("bu-base", "currentUse"))[1].ch[1].ch[1].attrib
           = {<<I("xlink", "href"),
                Uri("http://inspire.ec.europa.eu/codelist/CurrentUseValue/residential")>>}
    /\ Children(1, I("bu-base", "currentUse"))[1].ch[1].ch[2].text = <<"8", "0">>
    /\ Children(1, I("bu-base", "currentUse"))[2].ch[1].ch[1].attrib
           = {<<I("xlink", "href"),
                Uri("http://inspire.ec.europa.eu/codelist/CurrentUseValue/trade")>>}
    /\ Children(1, I("bu-base", "currentUse"))[2].ch[1].ch[2].text = <<"5">>

---------------------------------------------------------------------------
(* SpecStoreys: one building with its number of floors and its height per    *)
(* floor                                                                     *)

\* FLOORS texts: the numbers 0..MaxFloors, and a text that is not a number
FloorsTexts == {Str(n) : n \in 0..MaxFloors} \cup {<<"two">>}

\* H_FLOOR texts: with a decimal point, with a decimal comma, without decimals
FloorHeights == {<<"3", ".", "0">>, <<"2", ",", "7">>, <<"3">>}

StoreysDocument(floors, hei) ==
    <<(IF floors # NoText THEN A("FLOORS", floors) ELSE NoFields)
      @@ (IF hei # NoText THEN A("H_FLOOR", hei) ELSE NoFields)
      @@ Base(U1)>>

InitStoreys ==
    \E floors \in FloorsTexts \cup {NoText}, hei \in FloorHeights \cup {NoText} :
        InitRun({StoreysDocument(floors, hei)}, {"INSPIRE", "CityGML"})

SpecStoreys == InitStoreys /\ [][Next]_vars

\* C11: in the CityGML builder, when FLOORS = n (n >= 0) and H_FLOOR = h are
\* both present, the record translates and its storeyHeightsAboveGround text is
\* h repeated n times, separated by single commas, with no leading or trailing
\* comma.
C11_StoreyHeightsRepeated ==
    (returned # <<>> /\ standard = "CityGML"
     /\ "FLOORS" \in DOMAIN feature_members[1] /\ "H_FLOOR" \in DOMAIN feature_members[1])
        => \A n \in 0..MaxFloors :
               feature_members[1]["FLOORS"].text = Str(n)
                   => /\ pc # "raised"
                      /\ Children(1, G("bldg", "storeyHeightsAboveGround"))
                             = <<El(G("bldg", "storeyHeightsAboveGround"),
                                    {<<Plain("uom"), <<"m">>>>},
                                    Join([i \in 1..n |-> feature_members[1]["H_FLOOR"].text],
                                         ","),
                                    <<>>)>>

C11_Witness ==
    /\ pc = "written"
    /\ standard = "CityGML"
    /\ "FLOORS" \in DOMAIN feature_members[1]
    /\ "H_FLOOR" \in DOMAIN feature_members[1]
    /\ feature_members[1]["FLOORS"].text = <<"3">>
    /\ feature_members[1]["H_FLOOR"].text = <<"3", ".", "0">>
    /\ Children(1, G("bldg", "storeyHeightsAboveGround"))[1].text
           = <<"3", ".", "0", ",", "3", ".", "0", ",", "3", ".", "0">>

---------------------------------------------------------------------------
(* SpecTwice: the program run twice on the same source document              *)

InitTwice == InitRun(SeqsUpTo(Members, MaxTwiceMembers), {"INSPIRE", "CityGML"})

SpecTwice == InitTwice /\ [][NextTwice]_vars

\* the attributes of an element, the timeStamp aside
WithoutTimeStamp(attrib) == {a \in attrib : a[1] # Plain("timeStamp")}

\* C12: two runs over the same source document with the same builder kind
\* write identical trees: the same root, and the same members with the same
\* content in the same order, the root's timeStamp aside.
C12_TwoRunsSameOutput ==
    Len(written) = 2 =>
        /\ written[1].tag = written[2].tag
        /\ WithoutTimeStamp(written[1].attrib) = WithoutTimeStamp(written[2].attrib)
        /\ written[1].ch = written[2].ch

---------------------------------------------------------------------------
(* SpecApi: a caller that uses the classes directly: write_to_file on the    *)
(* fresh builder, and translate() called again on the same builder           *)

\* feature members of the documents of SpecApi
ApiMembers ==
    {Base(U1), Base(U2),
     A("UUID", U1) @@ A("UNITS", <<"3">>),
     A("BUILDINGTYPE", <<"villa">>) @@ Base(U2)}

InitApi == InitRun(SeqsUpTo(ApiMembers, MaxApiMembers), {"INSPIRE", "CityGML"})

SpecApi == InitApi /\ [][NextApi]_vars

\* C13: write_to_file on a freshly constructed builder of either kind, before
\* any translate() call, raises nothing and writes the root collection element
\* as the constructor made it, with zero member children.
C13_EarlyWriteIsEmptyCollection ==
    (written # <<>> /\ returned = <<>>)
        => /\ err = NoErr
           /\ pc # "raised"
           /\ written[1].ch = <<>>
           /\ written[1].tag = (IF standard = "INSPIRE" THEN I("wfs", "FeatureCollection")
                                ELSE G("core", "CityModel"))
           /\ written[1] = root

C13_Witness ==
    /\ written # <<>>
    /\ returned = <<>>
    /\ standard = "INSPIRE"
    /\ written[1].ch = <<>>
    /\ written[1].tag = I("wfs", "FeatureCollection")

\* the members of the records that a stretch of __next__ calls yielded, in order
MembersYielded(calls) ==
    LET yielded == SelectSeq(calls, LAMBDA e : ~e.stop)
    IN  [k \in 1..Len(yielded) |-> Member(standard, yielded[k].bu).ch[1]]

\* C14: translate() only appends to the root: every step of every call leaves
\* the members already there in place and unchanged, and adds after them one
\* member for each record the document yields in that step and nothing
\* else; so a call given a document that yields k records adds exactly k
\* members after the existing ones.
C14_TranslateOnlyAppends ==
    [][/\ Len(root'.ch) >= Len(root.ch)
       /\ SubSeq(root'.ch, 1, Len(root.ch)) = root.ch
       /\ SubSeq(root'.ch, Len(root.ch) + 1, Len(root'.ch))
              = MembersYielded(SubSeq(returned', Len(returned) + 1, Len(returned')))]_vars

C14_Witness ==
    /\ pc = "translated"
    /\ TranslateCalls = 2
    /\ Len(returned) = 6
    /\ returned[3].stop /\ returned[6].stop
    /\ Len(root.ch) = 4
    /\ root.ch[1] # root.ch[2]
    /\ {root.ch[3], root.ch[4]} = {root.ch[1], root.ch[2]}

---------------------------------------------------------------------------
(* SpecCarrier: one building of two feature members with the energy fields  *)
(* of both carriers, translated by the CityGML builder                      *)

\* what the document says about one carrier
CarrierCases == {"none", "match", "upper", "other", "otherNoValue", "gap", "noSource"}

UpperSourceText(energy_carrier) ==
    IF energy_carrier = "electricity" THEN <<"ELECTRICITY">> ELSE <<"THERMAL">>

\* the fields of a carrier in the first and in the second feature member
CarrierFields(c, case) ==
    LET measured(y, v) == A(YEAR_ONLY(c), y) @@ A(VALORE(c), v)
        first == A(UOM(c), <<"kWh">>) @@ measured(<<"1", "0">>, <<"5">>)
    IN  CASE case = "none" -> <<NoFields, NoFields>>
          [] case = "match" ->
                 <<A(SOURCE(c), SourceText(c)) @@ first, measured(<<"1", "1">>, <<"6">>)>>
          [] case = "upper" ->
                 <<A(SOURCE(c), UpperSourceText(c)) @@ first,
                   measured(<<"1", "1">>, <<"6">>)>>
          [] case = "other" -> <<A(SOURCE(c), <<"gas">>) @@ first, NoFields>>
          [] case = "otherNoValue" -> <<A(SOURCE(c), <<"gas">>), NoFields>>
          [] case = "gap" ->
                 <<A(SOURCE(c), SourceText(c)) @@ first, measured(<<"1", "2">>, <<"6">>)>>
          [] case = "noSource" -> <<first, NoFields>>

CarrierDocument(e, t) ==
    <<CarrierFields("electricity", e)[1] @@ CarrierFields("thermal", t)[1] @@ Base(U1),
      CarrierFields("electricity", e)[2] @@ CarrierFields("thermal", t)[2] @@ A("UUID", U1)>>

InitCarrier ==
    \E e \in CarrierCases, t \in CarrierCases :
        InitRun({CarrierDocument(e, t)}, {"CityGML"})

SpecCarrier == InitCarrier /\ [][Next]_vars

\* the place of a carrier's demand among the sections of the loop body
DemandSection(c) == IF c = "electricity" THEN 6 ELSE 7

\* the carrier has a consumption value and a source field, and the sections
\* before its demand ran through
DemandEntered(bu, c) ==
    /\ Having(bu, VALORE(c)) # {}
    /\ Having(bu, SOURCE(c)) # {}
    /\ Chain(SubSeq(CityGMLBeforeHeight(bu), 1, DemandSection(c) - 1)).err = NoErr

\* the source field of the carrier, lower-cased, is not the carrier's name
SourceDiffers(bu, c) == Lower(FirstText(bu, SOURCE(c))) # <<c>>

\* the energy:demands elements that come before the carrier's own
DemandsBefore(bu, c) ==
    IF c = "thermal" /\ Having(bu, VALORE("electricity")) # {} THEN 1 ELSE 0

\* C15: in the CityGML builder, when a carrier whose demand is reached has a
\* consumption value and its source field, lower-cased, differs from the
\* carrier name, translation fails with EnergyCarrierMismatch and the building
\* has no energy:demands element of that carrier; and EnergyCarrierMismatch is
\* raised only for a carrier whose source differs: a source that matches in
\* any letter case raises none.
C15_SourceMismatchFailsBeforeDemand ==
    returned # <<>> =>
        LET bu == returned[1].bu
        IN  /\ \A c \in {"electricity", "thermal"} :
                   (DemandEntered(bu, c) /\ SourceDiffers(bu, c))
                       => /\ pc = "raised"
                          /\ err = "EnergyCarrierMismatch"
                          /\ Len(Children(1, G("energy", "demands"))) = DemandsBefore(bu, c)
            /\ err = "EnergyCarrierMismatch"
                   => \E c \in {"electricity", "thermal"} :
                          DemandEntered(bu, c) /\ SourceDiffers(bu, c)

C15_Witness ==
    /\ pc = "raised"
    /\ err = "EnergyCarrierMismatch"
    /\ feature_members = CarrierDocument("upper", "other")
    /\ Len(Children(1, G("energy", "demands"))) = 1
    /\ Children(1, G("energy", "demands"))[1].ch[1].ch[3].text = <<"Electricity">>

---------------------------------------------------------------------------
(* The interval of the time series (SpecEnergy) *)

\* a demand was emitted for the carrier of the document
DemandEmitted ==
    /\ pc \in {"translated", "written"}
    /\ DocValues # <<>>
    /\ Len(Children(1, G("energy", "demands"))) = 1

\* C16 as stated: every time series emitted has the timeInterval 1, unit year,
\* whatever the number of years it covers.
C16_IntervalIsOneYear ==
    DemandEmitted =>
        /\ Series.ch[3].tag = G("energy", "timeInterval")
        /\ Series.ch[3].attrib = {<<Plain("unit"), <<"year">>>>}
        /\ Series.ch[3].text = <<"1">>

\* C16 amended: every time series emitted has a timeInterval with unit year
\* whose value is the number of years collected for the carrier; it is 1 only
\* for a series of a single year.
C16_IntervalIsNumberOfYears ==
    DemandEmitted =>
        /\ Series.ch[3].tag = G("energy", "timeInterval")
        /\ Series.ch[3].attrib = {<<Plain("unit"), <<"year">>>>}
        /\ Series.ch[3].text = Str(Len(DocYears))
        /\ (Series.ch[3].text = <<"1">> <=> Len(DocYears) = 1)

C16_Witness ==
    /\ pc = "written"
    /\ DocYears = << <<"1", "0">>, <<"1", "1">>, <<"1", "2">> >>
    /\ Len(DocValues) = 3
    /\ Series.ch[3].text = <<"3">>
    /\ Series.ch[3].attrib = {<<Plain("unit"), <<"year">>>>}

---------------------------------------------------------------------------
(* SpecDates: one building with the years of its construction and of its     *)
(* renovation                                                                *)

Year1990 == <<"1", "9", "9", "0">>
Year1995 == <<"1", "9", "9", "5">>

Optional(name, text) == IF text # NoText THEN A(name, text) ELSE NoFields

DatesDocument(cb, ce, rb, re) ==
    <<Optional("DATE_C_BEGINNING", cb) @@ Optional("DATE_C_END", ce)
      @@ Optional("DATE_R_BEGINNING", rb) @@ Optional("DATE_R_END", re) @@ Base(U1)>>

InitDates ==
    \E cb \in {NoText, Year1990}, ce \in {NoText, Year1990, Year1995},
       rb \in {NoText, Year1990}, re \in {NoText, Year1990, Year1995} :
        InitRun({DatesDocument(cb, ce, rb, re)}, {"INSPIRE", "CityGML"})

SpecDates == InitDates /\ [][Next]_vars

\* the DateOfEvent of the construction block (the first dateOfConstruction
\* child) or of the renovation block (the one after it, the first when the
\* building has no year of construction)
DateOfEvent(beginning) ==
    LET blocks == Children(1, I("bu-base", "dateOfConstruction"))
    IN  IF beginning = "DATE_C_BEGINNING"
           \/ "DATE_C_BEGINNING" \notin DOMAIN feature_members[1]
        THEN blocks[1].ch[1]
        ELSE blocks[2].ch[1]

\* the claim of C17 for one of the two dates
DateAsClaimed(beginning, end) ==
    beginning \in DOMAIN feature_members[1] =>
        LET event == DateOfEvent(beginning)
        IN  /\ event.ch[1].tag = I("bu-base", "beginning")
            /\ event.ch[1].text = feature_members[1][beginning].text \o <<"-01-01T00:00:00">>
            /\ Len(event.ch) = (IF end \in DOMAIN feature_members[1] THEN 2 ELSE 1)
            /\ end \in DOMAIN feature_members[1] =>
                   /\ event.ch[2].tag = I("bu-base", "end")
                   /\ event.ch[2].text
                          = feature_members[1][end].text \o <<"-01-01T00:00:00">>

\* C17: in the Inspire builder, for the date of construction and the date of
\* renovation alike, the begin timestamp is '<begin year>-01-01T00:00:00', an
\* end timestamp is emitted exactly when the end-year field is present, and it
\* is '<end year>-01-01T00:00:00' built from the end-year field.
C17_EndTimestampFromEndYear ==
    (standard = "INSPIRE" /\ returned # <<>> /\ ~returned[1].stop)
        => /\ DateAsClaimed("DATE_C_BEGINNING", "DATE_C_END")
           /\ DateAsClaimed("DATE_R_BEGINNING", "DATE_R_END")

---------------------------------------------------------------------------
(* SpecCodeLists: one building whose code-list fields spell their terms in   *)
(* lower case and with capitals                                              *)

\* the height fields with a given reference term
HeightFields(term) ==
    IF term = NoText THEN NoFields
    ELSE HeightVal @@ A("HEIGHT_HEIGHT_REF", term) @@ HeightStat("stimata")

CodeListDocument(condition, use_m, use_s, building_type, height_ref) ==
    <<Optional("CONDITION", condition) @@ Optional("USE_M", use_m)
      @@ Optional("USE_S", use_s) @@ Optional("BUILDINGTYPE", building_type)
      @@ HeightFields(height_ref) @@ Base(U1)>>

InitCodeLists ==
    \E condition \in {NoText, <<"functional">>, <<"Functional">>},
       use_m \in {NoText, <<"residenziale", "(", "8", "0", "%", ")">>,
                  <<"Residenziale", "(", "8", "0", "%", ")">>},
       use_s \in {NoText, <<"residenziale">>, <<"Residenziale">>},
       building_type \in {NoText, <<"ApartmentBlock">>},
       height_ref \in {NoText, <<"generalroof">>, <<"GeneralRoof">>, <<"highestPoint">>} :
        InitRun({CodeListDocument(condition, use_m, use_s, building_type, height_ref)},
                {"INSPIRE", "CityGML"})

SpecCodeLists == InitCodeLists /\ [][Next]_vars

\* the code-list look-ups a builder makes: the field, its table, and the part
\* of the field that is the term
LookupSites(std) ==
    IF std = "INSPIRE"
    THEN {[field |-> "CONDITION", dict |-> condition_of_construction_dict],
          [field |-> "HEIGHT_HEIGHT_REF", dict |-> elevation_reference_dict],
          [field |-> "HEIGHT_HEIGHT_STAT", dict |-> height_status_dict],
          [field |-> "BUILDINGTYPE", dict |-> building_nature_dict],
          [field |-> "USE_M", dict |-> current_use_dict]}
    ELSE {[field |-> "USE_S", dict |-> usage_dict],
          [field |-> "HEIGHT_HEIGHT_REF", dict |-> height_reference_dict],
          [field |-> "BUILDINGTYPE", dict |-> building_type_dict]}

SourceTerm(field) ==
    LET text == feature_members[1][field].text
    IN  IF field = "USE_M" THEN SubSeq(text, 1, 1) ELSE text

\* the keys of a table that equal the term up to letter case
KeysUpToCase(dict, term) == {k \in DOMAIN dict : Lower(k) = Lower(term)}

\* every text and attribute value in an element and below it
RECURSIVE ValuesIn(_)
ValuesIn(e) ==
    {e.text} \cup {a[2] : a \in e.attrib}
    \cup UNION {ValuesIn(e.ch[i]) : i \in DOMAIN e.ch}

\* C18: the look-ups of both builders are made on the case-folded term: when
\* every code-list field of the record holds a term that equals a key of its
\* table up to letter case, the record translates and the building carries the
\* value of that key for each of them.
C18_LookupsFoldCase ==
    (returned # <<>> /\ ~returned[1].stop
     /\ \A site \in LookupSites(standard) :
            site.field \in DOMAIN feature_members[1]
                => KeysUpToCase(site.dict, SourceTerm(site.field)) # {})
        => /\ pc # "raised"
           /\ \A site \in LookupSites(standard) :
                  site.field \in DOMAIN feature_members[1]
                      => \E k \in KeysUpToCase(site.dict, SourceTerm(site.field)) :
                             site.dict[k] \in ValuesIn(BuildingOf(1))

---------------------------------------------------------------------------
(* Documents without identifiers (Spec) *)

\* C19: loading a document that has no feature member with a UUID fails in
\* the constructor, at the eager look-up of the first identifier (IndexError):
\* no builder is made and nothing is translated or written; so a loaded
\* document always has a non-empty identifier list, and a translate() loop
\* always yields at least one record before it ends.
C19_NoIdentifiersFailsInConstructor ==
    /\ (DistinctUuids = {} /\ pc # "start")
           => /\ pc = "raised"
              /\ err = "IndexError"
              /\ root = NoRoot
              /\ returned = <<>>
              /\ written = NoFile
    /\ pc \in {"constructed", "translating", "translated", "written"}
           => building_UUIDs # <<>>
    /\ returned # <<>> => ~returned[1].stop

C19_Witness ==
    /\ pc = "raised"
    /\ err = "IndexError"
    /\ Len(feature_members) = 2
    /\ DistinctUuids = {}
    /\ building_UUIDs = <<>>

---------------------------------------------------------------------------
(* Two consumers of one document (SpecIter) *)

\* the calls of one consumer that were answered with a record
DeliveredTo(consumer) ==
    {k \in DOMAIN returned : ~returned[k].stop /\ returned[k].by = consumer}

\* C20: the consumers of one document share its cursor, which every next()
\* call advances by exactly one, also a call after exhaustion; however the
\* calls of two consumers interleave, no identifier's record is delivered
\* twice (to one consumer or to both), and once the sequence is exhausted each
\* identifier has been delivered exactly once over the two consumers together.
C20_ConsumersShareOneCursor ==
    pc = "constructed" =>
        /\ UUID_index = FirstIndex + Len(returned)
        /\ \A j, k \in DeliveredTo("first") \cup DeliveredTo("second") :
               j # k => returned[j].bu.UUID # returned[k].bu.UUID
        /\ \A j \in DeliveredTo("first"), k \in DeliveredTo("second") :
               returned[j].bu # returned[k].bu
        /\ (\E k \in DOMAIN returned : returned[k].stop) =>
               \A i \in DOMAIN building_UUIDs :
                   Cardinality({k \in DeliveredTo("first") \cup DeliveredTo("second") :
                                    returned[k].bu.UUID = building_UUIDs[i]}) = 1

C20_Witness ==
    /\ pc = "constructed"
    /\ Len(building_UUIDs) = 2
    /\ Len(returned) = 4
    /\ returned[3].stop /\ returned[4].stop
    /\ DeliveredTo("first") = {1}
    /\ DeliveredTo("second") = {2}
    /\ returned[3].by = "second" /\ returned[4].by = "first"

=============================================================================
